---- MODULE Spec2Model ----
(***************************************************************************)
(* A model of dfcleaner.core.DFCleaner: the time-column detector, the      *)
(* timestamp indexer with its timezone policy and frequency inference, the *)
(* period trimmer and the numeric normalizer.                              *)
(*                                                                         *)
(* Time is counted in whole hours from 2024-01-01 00:00, a Monday.  A      *)
(* timezone-aware timestamp is held as its instant (hours, UTC) together   *)
(* with the zone of its index; a naive timestamp is held as its clock      *)
(* value.  Zones are real zones without daylight saving time.              *)
(***************************************************************************)
EXTENDS Integers, Sequences, FiniteSets, TLC

VARIABLES timezone, hostzone, now, df, call, time_cols

vars == <<timezone, hostzone, now, df, call, time_cols>>

\* ------------------------------------------------------------- bounds

\* Most rows a table holds.
MaxRows == 2

\* Most columns a table of the detector holds.
MaxCols == 2

\* Most characters a generated text cell holds.
MaxLen == 2

\* ----------------------------------------------------------- calendar

None == "None"

\* The missing timestamp; it is below every clock value the model holds and
\* every comparison treats it apart.
NaT == 0 - 1000000

Zones == {"UTC", "Asia/Tokyo", "America/Phoenix"}

\* Hours a zone's clock is ahead of UTC.
UtcOffset(z) ==
    CASE z = "UTC" -> 0
      [] z = "Asia/Tokyo" -> 9
      [] z = "America/Phoenix" -> 0 - 7

Years == 1970..2025

IsLeap(y) == (y % 4 = 0 /\ y % 100 # 0) \/ y % 400 = 0

DaysInYear(y) == IF IsLeap(y) THEN 366 ELSE 365

DaysInMonth(y, m) ==
    IF m = 2 THEN (IF IsLeap(y) THEN 29 ELSE 28)
    ELSE IF m \in {4, 6, 9, 11} THEN 30 ELSE 31

\* Days from 2024-01-01 to the first day of year y (negative before 2024).
RECURSIVE DaysBeforeYear(_)
DaysBeforeYear(y) ==
    IF y = 2024 THEN 0
    ELSE IF y > 2024 THEN DaysBeforeYear(y - 1) + DaysInYear(y - 1)
    ELSE DaysBeforeYear(y + 1) - DaysInYear(y)

RECURSIVE DaysBeforeMonth(_, _)
DaysBeforeMonth(y, m) ==
    IF m <= 1 THEN 0 ELSE DaysBeforeMonth(y, m - 1) + DaysInMonth(y, m - 1)

\* The day number of the first day of month m of year y (m = 13: of the
\* following January), tabulated once.
MonthStart ==
    [y \in Years |-> [m \in 1..13 |-> DaysBeforeYear(y) + DaysBeforeMonth(y, m)]]

\* The clock value of y-m-d h:00.
At(y, m, d, h) == 24 * (MonthStart[y][m] + d - 1) + h

DayNo(c) == c \div 24

HourOf(c) == c % 24

YearOf(c) ==
    CHOOSE y \in (IF c >= 0 THEN 2024..2025 ELSE 1970..2023) :
        MonthStart[y][1] <= DayNo(c) /\ DayNo(c) < MonthStart[y][13]

MonthOf(c) ==
    LET y == YearOf(c)
    IN  CHOOSE m \in 1..12 :
            MonthStart[y][m] <= DayNo(c) /\ DayNo(c) < MonthStart[y][m + 1]

DayOf(c) == DayNo(c) - MonthStart[YearOf(c)][MonthOf(c)] + 1

\* 1970-01-01 00:00, the epoch of integer timestamps.
Epoch == At(1970, 1, 1, 0)

\* Monday is 0, Sunday is 6.
Weekday(c) == DayNo(c) % 7

\* ------------------------------------------------------- pandas values

\* A pandas Timestamp: v is the instant when tz is a zone, the clock value
\* when tz is None.
Wall(ts) == IF ts.tz = None THEN ts.v ELSE ts.v + UtcOffset(ts.tz)

\* Timestamp.tz_localize(z) of a naive clock value w.
Localize(w, z) == [tz |-> z, v |-> IF z = None THEN w ELSE w - UtcOffset(z)]

\* Timestamp.replace(day=d): the clock's day of month is set, its time of
\* day and its zone are kept.
ReplaceDay(ts, d) ==
    LET w == Wall(ts)
    IN  Localize(At(YearOf(w), MonthOf(w), d, HourOf(w)), ts.tz)

\* Timestamp - Timedelta(days=n): n * 24 hours of elapsed time.
MinusDays(ts, n) == [tz |-> ts.tz, v |-> ts.v - 24 * n]

\* The order sort_index puts labels in: ascending, missing labels last.
LabelLE(a, b) == b = NaT \/ (a # NaT /\ a <= b)

InsertRow(sorted, r) ==
    LET before == SelectSeq(sorted, LAMBDA x : LabelLE(x.label, r.label))
        after == SelectSeq(sorted, LAMBDA x : ~LabelLE(x.label, r.label))
    IN  before \o <<r>> \o after

RECURSIVE SortRows(_)
SortRows(rows) ==
    IF rows = <<>> THEN <<>>
    ELSE InsertRow(SortRows(SubSeq(rows, 1, Len(rows) - 1)), rows[Len(rows)])

\* DataFrame.sort_index()
sort_index(t) == [t EXCEPT !.rows = SortRows(t.rows)]

\* ---------------------------------------------------------- DFCleaner

Raised(what) == [raised |-> what]

IsRaised(r) == "raised" \in DOMAIN r

\* Text is a sequence of characters; the absent value None is no text.
NoText == <<None>>

\* The unnamed default index of a table: 0, 1, 2, ...
RangeIndex == [dtype |-> "int64", tz |-> None, name |-> NoText]

EmptyTable == [columns |-> <<>>, dtypes |-> <<>>, index |-> RangeIndex, rows |-> <<>>]

\* A number cell: n * 10^-e.
Number(n, e) == [k |-> "num", n |-> n, e |-> e]

\* A text cell.
Text(chars) == [k |-> "str", s |-> chars]

\* The missing cell (NaN).
Missing == [k |-> "nan"]


\* ------------------------------------------------- the column detector

UpperCase == <<"A", "B", "C", "D", "E", "F", "G", "H", "I", "J", "K", "L", "M", "N", "O", "P", "Q", "R", "S", "T", "U", "V", "W", "X", "Y", "Z">>

LowerCase == <<"a", "b", "c", "d", "e", "f", "g", "h", "i", "j", "k", "l", "m", "n", "o", "p", "q", "r", "s", "t", "u", "v", "w", "x", "y", "z">>

\* str.lower() of one character, and of a text.
LowerChar(c) ==
    IF \E i \in DOMAIN UpperCase : UpperCase[i] = c
    THEN LowerCase[CHOOSE i \in DOMAIN UpperCase : UpperCase[i] = c]
    ELSE c

lower(text) == [i \in DOMAIN text |-> LowerChar(text[i])]

\* Python's truth value of an optional text: None and "" are false.
Truthy(text) == text # NoText /\ text # <<>>

\* The list detect_time_col starts from.
FixedTimeCols ==
    <<<<"d", "a", "t", "e">>,
      <<"d", "t">>,
      <<"h", "o", "u", "r">>,
      <<"t", "i", "m", "e">>,
      <<"d", "a", "y">>,
      <<"m", "o", "n", "t", "h">>,
      <<"y", "e", "a", "r">>,
      <<"w", "e", "e", "k">>,
      <<"t", "i", "m", "e", "s", "t", "a", "m", "p">>,
      <<"b", "l", "o", "c", "k", "_", "t", "i", "m", "e", "s", "t", "a", "m", "p">>,
      <<"d", "s">>,
      <<"p", "e", "r", "i", "o", "d">>,
      <<"d", "a", "t", "e", "_", "t", "i", "m", "e">>,
      <<"t", "r", "u", "n", "c", "_", "d", "a", "t", "e">>,
      <<"q", "u", "a", "r", "t", "e", "r">>,
      <<"b", "l", "o", "c", "k", "_", "t", "i", "m", "e">>,
      <<"b", "l", "o", "c", "k", "_", "d", "a", "t", "e">>,
      <<"d", "a", "t", "e", "(", "u", "t", "c", ")">>>>

Contains(list, x) == \E i \in DOMAIN list : list[i] = x

\* The list kept from one call to the next and grown by every hint.
build_time_cols_shared(custom_col) ==
    IF Truthy(custom_col) THEN Append(time_cols, lower(custom_col)) ELSE time_cols

\* The list a call of detect_time_col builds and searches.
build_time_cols(custom_col) ==
    IF Truthy(custom_col) THEN Append(FixedTimeCols, lower(custom_col)) ELSE FixedTimeCols

\* The first column, in column order, whose lowered name is in the list.
first_match(columns, list) ==
    IF \E i \in DOMAIN columns : Contains(list, lower(columns[i]))
    THEN columns[CHOOSE i \in DOMAIN columns :
                     /\ Contains(list, lower(columns[i]))
                     /\ \A j \in 1..(i - 1) : ~Contains(list, lower(columns[j]))]
    ELSE NoText

detect_time_col(t, custom_col) == first_match(t.columns, build_time_cols(custom_col))

is_datetime64_any_dtype(index) == index.dtype = "datetime64"

\* -------------------------------------------------- the timezone policy

\* Python's truth value of the configured zone: None and "" are false.
ZoneGiven(z) == z # None /\ z # ""

\* DatetimeIndex.tz_localize(z) of a naive index: the clock values are read
\* as clock values of zone z; a missing value stays missing.
tz_localize(t, z) ==
    [t EXCEPT !.index.tz = z,
              !.rows = [i \in DOMAIN t.rows |->
                  [t.rows[i] EXCEPT !.label = IF @ = NaT THEN NaT ELSE Localize(@, z).v]]]

\* DatetimeIndex.tz_convert(z) of an aware index: the instants stay.
tz_convert(t, z) == [t EXCEPT !.index.tz = z]

\* DatetimeIndex.tz_localize(None): the clock values of the index's zone stay,
\* the zone is dropped.
tz_strip(t) ==
    [t EXCEPT !.index.tz = None,
              !.rows = [i \in DOMAIN t.rows |->
                  [t.rows[i] EXCEPT !.label =
                      IF @ = NaT THEN NaT ELSE Wall([tz |-> t.index.tz, v |-> @])]]]

\* apply_timezone that localizes an aware index anew instead of converting it.
apply_timezone_relocalize(t, zone) ==
    IF ~is_datetime64_any_dtype(t.index) THEN t
    ELSE IF ZoneGiven(zone) THEN tz_localize(tz_strip(t), zone)
    ELSE tz_strip(t)

apply_timezone(t, zone) ==
    IF ~is_datetime64_any_dtype(t.index) THEN t
    ELSE IF ZoneGiven(zone)
         THEN IF t.index.tz = None THEN tz_localize(t, zone) ELSE tz_convert(t, zone)
         ELSE tz_strip(t)

\* ------------------------------------------------ the numeric normalizer

IsPrefix(p, text) == Len(p) <= Len(text) /\ SubSeq(text, 1, Len(p)) = p

\* str.replace(pat, repl, regex=False): every occurrence of pat, found from
\* the left and not overlapping, is replaced by repl.
RECURSIVE Replace(_, _, _)
Replace(text, pat, repl) ==
    IF text = <<>> THEN <<>>
    ELSE IF IsPrefix(pat, text)
         THEN repl \o Replace(SubSeq(text, Len(pat) + 1, Len(text)), pat, repl)
         ELSE <<Head(text)>> \o Replace(Tail(text), pat, repl)

Digits == <<"0", "1", "2", "3", "4", "5", "6", "7", "8", "9">>

IsDigit(c) == \E i \in DOMAIN Digits : Digits[i] = c

DigitValue(c) == (CHOOSE i \in DOMAIN Digits : Digits[i] = c) - 1

AllDigits(text) == \A i \in DOMAIN text : IsDigit(text[i])

RECURSIVE DigitsValue(_)
DigitsValue(text) ==
    IF text = <<>> THEN 0
    ELSE 10 * DigitsValue(SubSeq(text, 1, Len(text) - 1)) + DigitValue(text[Len(text)])

\* The number an unsigned decimal text denotes: digits with at most one
\* decimal point and at least one digit; Missing when it denotes none.
UnsignedNumber(text) ==
    LET dots == {i \in DOMAIN text : text[i] = "."}
    IN  IF dots = {}
        THEN IF text # <<>> /\ AllDigits(text)
             THEN Number(DigitsValue(text), 0) ELSE Missing
        ELSE IF Cardinality(dots) = 1
        THEN LET d == CHOOSE i \in dots : TRUE
                 whole == SubSeq(text, 1, d - 1)
                 frac == SubSeq(text, d + 1, Len(text))
             IN  IF Len(text) > 1 /\ AllDigits(whole) /\ AllDigits(frac)
                 THEN Number(DigitsValue(whole \o frac), Len(frac)) ELSE Missing
        ELSE Missing

Negated(cell) == IF cell = Missing THEN Missing ELSE Number(0 - cell.n, cell.e)

\* pd.to_numeric(errors='coerce') of a text: the number it denotes; "NaN",
\* the empty text and every text that denotes no number become missing.
to_numeric(text) ==
    IF text # <<>> /\ Head(text) = "-" THEN Negated(UnsignedNumber(Tail(text)))
    ELSE IF text # <<>> /\ Head(text) = "+" THEN UnsignedNumber(Tail(text))
    ELSE UnsignedNumber(text)

\* The replacements without the one of ".".
clean_text_keeping_point(text) ==
    Replace(Replace(Replace(Replace(text,
        <<"#", "D", "I", "V", "/", "0", "!">>, <<"N", "a", "N">>),
        <<"%">>, <<>>), <<",">>, <<>>), <<"$">>, <<>>)

\* The five replacements of cleaning_values, in their order.
clean_text(text) ==
    Replace(Replace(Replace(Replace(Replace(text,
        <<"#", "D", "I", "V", "/", "0", "!">>, <<"N", "a", "N">>),
        <<".">>, <<"N", "a", "N">>),
        <<"%">>, <<>>), <<",">>, <<>>), <<"$">>, <<>>)

\* One cell of a textual column: .str leaves a cell that is no text missing.
clean_cell(cell) == IF cell.k = "str" THEN to_numeric(clean_text(cell.s)) ELSE Missing

\* select_dtypes(include=['object', 'string'])
IsTextual(dtype) == dtype \in {"object", "string"}

ColumnCells(t, c) == [i \in DOMAIN t.rows |-> t.rows[i].cells[c]]

\* The .str accessor refuses a column that holds values but no text (a date
\* written as text is text).
StrAccessorRaises(cells) ==
    /\ \E i \in DOMAIN cells : cells[i] # Missing
    /\ \A i \in DOMAIN cells : cells[i].k \notin {"str", "date", "slash"}

cleaning_values(t) ==
    IF \E c \in DOMAIN t.columns : IsTextual(t.dtypes[c]) /\ StrAccessorRaises(ColumnCells(t, c))
    THEN Raised("AttributeError")
    ELSE LET rows == [i \in DOMAIN t.rows |->
                         [t.rows[i] EXCEPT !.cells = [c \in DOMAIN t.columns |->
                             IF IsTextual(t.dtypes[c]) THEN clean_cell(@[c]) ELSE @[c]]]]
         IN  [t EXCEPT
                !.rows = rows,
                !.dtypes = [c \in DOMAIN t.columns |->
                    IF ~IsTextual(t.dtypes[c]) THEN t.dtypes[c]
                    ELSE IF \A i \in DOMAIN rows : rows[i].cells[c] # Missing
                         THEN "int64" ELSE "float64"]]

\* ------------------------------------------------ the frequency inferrer

LabelsOf(t) == [i \in DOMAIN t.rows |-> t.rows[i].label]

\* The clock values the index of t shows, row by row.
ClocksOf(t) ==
    [i \in DOMAIN t.rows |-> Wall([tz |-> t.index.tz, v |-> t.rows[i].label])]

Deltas(seq) == {seq[i + 1] - seq[i] : i \in 1..(Len(seq) - 1)}

Least(S) == CHOOSE x \in S : \A y \in S : x <= y

WeekdayAlias == <<"MON", "TUE", "WED", "THU", "FRI", "SAT", "SUN">>

\* pandas' month_position_check: whether every date is the last day of its
\* month ("ce"), its last business day ("be"), its first day ("cs") or its
\* first business day ("bs").
month_position_check(w) ==
    LET Last(c) == DaysInMonth(YearOf(c), MonthOf(c))
        ce == \A i \in DOMAIN w : DayOf(w[i]) = Last(w[i])
        be == \A i \in DOMAIN w :
                  \/ DayOf(w[i]) = Last(w[i])
                  \/ (Last(w[i]) - DayOf(w[i]) < 3 /\ Weekday(w[i]) = 4)
        cs == \A i \in DOMAIN w : DayOf(w[i]) = 1
        bs == \A i \in DOMAIN w :
                  \/ DayOf(w[i]) = 1
                  \/ (DayOf(w[i]) <= 3 /\ Weekday(w[i]) = 0)
    IN  IF ce THEN "ce" ELSE IF be THEN "be" ELSE IF cs THEN "cs"
        ELSE IF bs THEN "bs" ELSE None

\* pandas' _maybe_add_count
maybe_add_count(base, count) == IF count = 1 THEN base ELSE ToString(count) \o base

monthly_alias(pos, legacy) ==
    CASE pos = "cs" -> "MS"
      [] pos = "bs" -> "BMS"
      [] pos = "ce" -> (IF legacy THEN "M" ELSE "ME")
      [] pos = "be" -> (IF legacy THEN "BM" ELSE "BME")

quarterly_alias(pos, legacy) ==
    CASE pos = "cs" -> "QS"
      [] pos = "bs" -> "BQS"
      [] pos = "ce" -> (IF legacy THEN "Q" ELSE "QE")
      [] pos = "be" -> (IF legacy THEN "BQ" ELSE "BQE")

quarter_anchor(month) ==
    CASE month % 3 = 0 -> "-DEC"
      [] month % 3 = 2 -> "-NOV"
      [] month % 3 = 1 -> "-OCT"

\* pandas' _infer_daily_rule for clock values w a whole number of days apart:
\* the quarterly rule, then the monthly rule, then weeks or days when the
\* spacing is uniform.  (Years apart, business days and week-of-month
\* patterns do not occur in the indexes of this model.)
infer_daily_rule(w, legacy) ==
    LET mdiffs == Deltas([i \in DOMAIN w |-> YearOf(w[i]) * 12 + MonthOf(w[i])])
        pos == month_position_check(w)
        deltas == Deltas(w)
        days == Least(deltas) \div 24
    IN  IF Cardinality(mdiffs) = 1 /\ Least(mdiffs) % 3 = 0 /\ pos # None
        THEN maybe_add_count(quarterly_alias(pos, legacy) \o quarter_anchor(MonthOf(w[1])),
                             Least(mdiffs) \div 3)
        ELSE IF Cardinality(mdiffs) = 1 /\ pos # None
        THEN maybe_add_count(monthly_alias(pos, legacy), Least(mdiffs))
        ELSE IF Cardinality(deltas) = 1
        THEN IF days % 7 = 0
             THEN maybe_add_count("W-" \o WeekdayAlias[Weekday(w[1]) + 1], days \div 7)
             ELSE maybe_add_count("D", days)
        ELSE None

\* pd.infer_freq of a DatetimeIndex of at least 3 entries: None unless the
\* index is free of missing values and strictly monotonic.  legacy tells the
\* aliases of pandas before 2.2 ("M", "Q-DEC", "H") from the later ones.
infer_freq(t, legacy) ==
    LET w == ClocksOf(t)
        deltas == Deltas(w)
    IN  IF \E i \in DOMAIN t.rows : t.rows[i].label = NaT THEN None
        ELSE IF ~((\A d \in deltas : d > 0) \/ (\A d \in deltas : d < 0)) THEN None
        ELSE IF Least(deltas) % 24 = 0 THEN infer_daily_rule(w, legacy)
        ELSE IF Cardinality(deltas) = 1
             THEN maybe_add_count(IF legacy THEN "H" ELSE "h", Least(deltas))
             ELSE None

\* ------------------------------------------------ the timestamp indexer

\* The text of an ISO date, "YYYY-MM-DD".
DateText(y, m, d) == [k |-> "date", y |-> y, m |-> m, d |-> d]

\* The text of a date with slashes, "a/b/YYYY".
SlashText(a, b, y) == [k |-> "slash", a |-> a, b |-> b, y |-> y]

\* The integer that counts the milliseconds from the epoch to clock value c.
Millis(c) == [k |-> "ms", c |-> c]

Parsed(v) == [ok |-> TRUE, v |-> v]

Unparsable == [ok |-> FALSE, v |-> NaT]

\* pd.to_datetime(str(cell), format='%Y').dt.year
parse_year(cell) ==
    IF cell.k = "num"
    THEN IF cell.e = 0 /\ 1000 <= cell.n /\ cell.n <= 9999
         THEN Parsed(cell.n) ELSE Unparsable
    ELSE IF cell.k = "nan" THEN Parsed(NaT)
    ELSE Unparsable

\* pd.to_datetime(cell, unit='ms'), to the hour: a number counts
\* milliseconds from the epoch (the numbers of this model are below one
\* hour's worth), a text that is no number is refused.
parse_millis(cell) ==
    IF cell.k = "ms" THEN Parsed(cell.c)
    ELSE IF cell.k = "num" THEN Parsed(Epoch)
    ELSE IF cell.k = "nan" THEN Parsed(NaT)
    ELSE Unparsable

\* pd.to_datetime(cell, dayfirst=dayfirst, errors='coerce'), to the hour: a
\* date text is parsed, an integer counts nanoseconds from the epoch, any
\* other text is missing.
parse_datetime(cell, dayfirst) ==
    IF cell.k = "date" THEN At(cell.y, cell.m, cell.d, 0)
    ELSE IF cell.k = "slash"
    THEN IF dayfirst
         THEN At(cell.y, cell.b, cell.a, 0) ELSE At(cell.y, cell.a, cell.b, 0)
    ELSE IF cell.k \in {"num", "ms"} THEN Epoch
    ELSE NaT

Without(seq, c) == SubSeq(seq, 1, c - 1) \o SubSeq(seq, c + 1, Len(seq))

\* df.set_index(col) with the column's cells replaced by labels.
set_index(t, c, labels, dtype) ==
    [columns |-> Without(t.columns, c),
     dtypes |-> Without(t.dtypes, c),
     index |-> [dtype |-> dtype, tz |-> None, name |-> t.columns[c]],
     rows |-> [i \in DOMAIN t.rows |->
                  [label |-> labels[i], cells |-> Without(t.rows[i].cells, c)]]]

\* The frequency to_time settles on for the indexed table: the inferred one,
\* "D" when there is none, the index is short or inference raises.
settle_freq(t, legacy) ==
    IF Len(t.rows) >= 3
    THEN IF ~is_datetime64_any_dtype(t.index) THEN "D"
         ELSE IF infer_freq(t, legacy) # None THEN infer_freq(t, legacy) ELSE "D"
    ELSE "D"

Returned(t, time_freq) == [df |-> t, time_freq |-> time_freq]

to_time(t, time_col, dayfirst, zone, legacy) ==
    LET col == IF Truthy(time_col) THEN time_col ELSE detect_time_col(t, NoText)
    IN  IF ~Truthy(col) THEN Returned(t, "D")
        ELSE IF ~Contains(t.columns, col) THEN Raised("KeyError")
        ELSE LET c == CHOOSE i \in DOMAIN t.columns : t.columns[i] = col
                 cells == ColumnCells(t, c)
                 years == [i \in DOMAIN cells |-> parse_year(cells[i])]
                 stamps == [i \in DOMAIN cells |-> parse_millis(cells[i])]
                 indexed ==
                     IF lower(col) = <<"y", "e", "a", "r">>
                     THEN set_index(t, c, [i \in DOMAIN cells |-> years[i].v],
                              IF \E i \in DOMAIN cells : years[i].v = NaT
                              THEN "float64" ELSE "int64")
                     ELSE IF lower(col) = <<"t", "i", "m", "e", "s", "t", "a", "m", "p">>
                     THEN set_index(t, c, [i \in DOMAIN cells |-> stamps[i].v], "datetime64")
                     ELSE set_index(t, c,
                              [i \in DOMAIN cells |-> parse_datetime(cells[i], dayfirst)],
                              "datetime64")
                 zoned == apply_timezone(indexed, zone)
             IN  IF lower(col) = <<"y", "e", "a", "r">> /\ \E i \in DOMAIN cells : ~years[i].ok
                 THEN Raised("ValueError")
                 ELSE IF /\ lower(col) = <<"t", "i", "m", "e", "s", "t", "a", "m", "p">>
                         /\ \E i \in DOMAIN cells : ~stamps[i].ok
                 THEN Raised("ValueError")
                 ELSE Returned(zoned, settle_freq(zoned, legacy))

\* --------------------------------------------------- the period trimmer code


\* "now" of clean_dates: the current instant in the index's zone, or the
\* host's current date at midnight as a naive timestamp.
today(index, clock, host) ==
    IF index.tz # None
    THEN [tz |-> index.tz, v |-> clock]
    ELSE [tz |-> None, v |-> 24 * DayNo(clock + UtcOffset(host))]

start_of_week(t) == MinusDays(t, Weekday(Wall(t)))

start_of_month(t) == ReplaceDay(t, 1)

current_quarter(t) == (MonthOf(Wall(t)) - 1) \div 3 + 1

\* quarter_start left in UTC instead of the index's zone.
quarter_start_unaligned(t, tz) ==
    [tz |-> tz, v |-> At(YearOf(Wall(t)), (current_quarter(t) - 1) * 3 + 1, 1, 0)]

quarter_start(t, tz) ==
    Localize(At(YearOf(Wall(t)), (current_quarter(t) - 1) * 3 + 1, 1, 0), tz)

boundary(index, time_freq, clock, host) ==
    LET t == today(index, clock, host)
    IN  IF time_freq = "W" THEN start_of_week(t)
        ELSE IF time_freq = "M" THEN start_of_month(t)
        ELSE IF time_freq = "Q" THEN quarter_start(t, index.tz)
        ELSE t

\* df[df.index < b]: a missing label compares false.
Before(t, b) ==
    [t EXCEPT !.rows = SelectSeq(t.rows, LAMBDA r : r.label # NaT /\ r.label < b.v)]

\* clean_dates without its final sort_index.
clean_dates_unsorted(t, time_freq, clock, host) ==
    IF ~is_datetime64_any_dtype(t.index)
    THEN Raised("AttributeError")
    ELSE Before(t, boundary(t.index, time_freq, clock, host))

clean_dates(t, time_freq, clock, host) ==
    IF ~is_datetime64_any_dtype(t.index)
    THEN Raised("AttributeError")
    ELSE sort_index(Before(t, boundary(t.index, time_freq, clock, host)))

\* ------------------------------------------------------------ inputs

SeqsUpTo(S, n) == UNION {[1..k -> S] : k \in 0..n}

\* The instants the host's clock takes, one in every month: the
\* specification's examples (Wednesday 2024-06-12, 2024-08-01), a Monday at
\* midnight (2024-02-19), instants whose date, month or quarter differs
\* between zones, and the first day of a year.
Nows ==
    {At(2024, 2, 19, 0), At(2024, 3, 20, 5), At(2024, 4, 20, 5), At(2024, 5, 20, 5),
     At(2024, 6, 12, 15), At(2024, 7, 1, 3), At(2024, 8, 1, 0), At(2024, 9, 30, 20),
     At(2024, 10, 20, 5), At(2024, 11, 20, 5), At(2024, 12, 20, 5), At(2025, 1, 1, 10)}

\* Index values of the tables given to clean_dates: at and just before the
\* Monday of 2024-06-10, the first of June, the Wednesday of the example, and
\* the start of the second quarter in UTC and in Tokyo.
TrimLabels ==
    {At(2024, 3, 31, 15), At(2024, 4, 1, 0), At(2024, 6, 1, 0), At(2024, 6, 9, 23),
     At(2024, 6, 10, 0), At(2024, 6, 12, 15)}

Freqs == {"W", "M", "Q", "D", "W-SUN"}

\* A table whose index is a DatetimeIndex of the given zone (None: naive),
\* with one data column holding the row's original position.
IndexedTable(tz, labels) ==
    [columns |-> <<<<"v", "a", "l", "u", "e">>>>,
     dtypes |-> <<"int64">>,
     index |-> [dtype |-> "datetime64", tz |-> tz, name |-> <<"d", "a", "t", "e">>],
     rows |-> [i \in 1..Len(labels) |-> [label |-> labels[i], cells |-> <<Number(i, 0)>>]]]

NoCall ==
    [op |-> "none", input |-> EmptyTable, param |-> None, prev |-> "none",
     prevParam |-> NoText, clock |-> 0, ret |-> EmptyTable]

\* ----------------------------------------------------------- actions

\* The host's clock moves forward to the next instant of Nows; the last call
\* is then in the past.
Tick ==
    /\ \E c \in Nows :
           /\ c > now
           /\ \A d \in Nows : d > now => c <= d
           /\ now' = c
    /\ call' = NoCall
    /\ UNCHANGED <<timezone, hostzone, df, time_cols>>

\* The caller holds a table indexed by timestamps.  An aware index never
\* consults the host's zone, so aware tables are drawn in that zone only.
LoadIndexed ==
    /\ df = EmptyTable
    /\ \E tz \in {None, hostzone}, labels \in SeqsUpTo(TrimLabels, MaxRows) :
           df' = IndexedTable(tz, labels)
    /\ call' = NoCall
    /\ UNCHANGED <<timezone, hostzone, now, time_cols>>

\* df = cleaner.clean_dates(df, time_freq)
CleanDates ==
    /\ \E f \in Freqs :
           LET ret == clean_dates(df, f, now, hostzone)
           IN  /\ call' = [op |-> "clean_dates", input |-> df, param |-> f, prev |-> call.op,
                           prevParam |-> NoText, clock |-> now, ret |-> ret]
               /\ df' = IF IsRaised(ret) THEN df ELSE ret
    /\ UNCHANGED <<timezone, hostzone, now, time_cols>>

InitTrim ==
    /\ timezone = None
    /\ hostzone \in Zones
    /\ now \in Nows
    /\ df = EmptyTable
    /\ call = NoCall
    /\ time_cols = FixedTimeCols

NextTrim == Tick \/ LoadIndexed \/ CleanDates

SpecTrim == InitTrim /\ [][NextTrim]_vars

\* ------------------------------------------------- the period trimmer

TrimReturned == call.op = "clean_dates" /\ ~IsRaised(call.ret)

RowsOf(t) == {t.rows[i] : i \in DOMAIN t.rows}

\* The clock reading of "now" in the frame of the index: in the index's
\* zone, or on the host when the index is naive.
NowClock(index, clock, host) ==
    clock + UtcOffset(IF index.tz = None THEN host ELSE index.tz)

\* Midnight that opens the Monday of the current week, as an index value.
MondayMidnight(index, clock, host) ==
    LET w == NowClock(index, clock, host)
    IN  Localize(24 * (DayNo(w) - Weekday(w)), index.tz).v

\* Midnight that opens the first day of the current month, as an index value.
MonthMidnight(index, clock, host) ==
    LET w == NowClock(index, clock, host)
    IN  Localize(At(YearOf(w), MonthOf(w), 1, 0), index.tz).v

\* Midnight that opens the current calendar quarter, as an index value.
QuarterMidnight(index, clock, host) ==
    LET w == NowClock(index, clock, host)
        q == CHOOSE m \in {1, 4, 7, 10} : m <= MonthOf(w) /\ MonthOf(w) <= m + 2
    IN  Localize(At(YearOf(w), q, 1, 0), index.tz).v

\* The call kept exactly the input rows whose label is before b.
KeptExactlyBefore(b) ==
    \A r \in RowsOf(call.input) : (r \in RowsOf(call.ret)) <=> (r.label < b)

\* C1: for Weekly, every row at or after Monday 00:00 of the current week is
\* removed and every row before it is kept, for a naive and for an aware index.
C1_WeeklyBoundaryIsMondayMidnight ==
    (TrimReturned /\ call.param = "W") =>
        KeptExactlyBefore(MondayMidnight(call.input.index, call.clock, hostzone))

\* C2: for Monthly, every row on the first day of the current month or later
\* is removed and every row of an earlier month is kept, for a naive and for
\* an aware index.
C2_MonthlyBoundaryIsFirstOfMonth ==
    (TrimReturned /\ call.param = "M") =>
        KeptExactlyBefore(MonthMidnight(call.input.index, call.clock, hostzone))

\* C3: for Quarterly, the rows kept are exactly those strictly before midnight
\* of the first day of the current calendar quarter, in the index's zone when
\* the index is aware.
C3_QuarterlyBoundaryIsQuarterMidnight ==
    (TrimReturned /\ call.param = "Q") =>
        KeptExactlyBefore(QuarterMidnight(call.input.index, call.clock, hostzone))

\* C3 happens: a Quarterly trim of an aware index outside UTC that keeps a
\* row and removes another.
C3_Witness ==
    /\ TrimReturned
    /\ call.param = "Q"
    /\ call.input.index.tz \notin {None, "UTC"}
    /\ call.ret.rows # <<>>
    /\ Len(call.ret.rows) < Len(call.input.rows)

Ascending(rows) ==
    \A i, j \in DOMAIN rows : i < j => rows[i].label <= rows[j].label

\* C8: clean_dates returns exactly the input rows strictly before the
\* boundary, ascending by index, with the input's columns; a code other than
\* W, M, Q has "now" itself as the boundary.
C8_TrimKeepsEarlierRowsSorted ==
    TrimReturned =>
        LET b == IF call.param \in {"W", "M", "Q"}
                 THEN boundary(call.input.index, call.param, call.clock, hostzone).v
                 ELSE IF call.input.index.tz = None
                      THEN 24 * DayNo(call.clock + UtcOffset(hostzone))
                      ELSE call.clock
            kept == {r \in RowsOf(call.input) : r.label < b}
        IN  /\ RowsOf(call.ret) = kept
            /\ Len(call.ret.rows) = Cardinality(kept)
            /\ Ascending(call.ret.rows)
            /\ call.ret.columns = call.input.columns
            /\ call.ret.dtypes = call.input.dtypes
            /\ call.ret.index = call.input.index

\* C8 happens: a trim under a code other than W, M, Q whose input was not in
\* ascending order and that keeps two rows.
C8_Witness ==
    /\ TrimReturned
    /\ call.param \notin {"W", "M", "Q"}
    /\ ~Ascending(call.input.rows)
    /\ Len(call.ret.rows) = 2

\* C8 also happens with every row at or after the boundary.
C8_WitnessEmpty ==
    /\ TrimReturned
    /\ call.input.rows # <<>>
    /\ call.ret.rows = <<>>
    /\ call.ret.columns = <<<<"v", "a", "l", "u", "e">>>>

\* ------------------------------------------------- the column detector

ColNames ==
    {<<"D", "a", "t", "e">>, <<"d", "s">>, <<"Y", "e", "a", "r">>, <<"p", "r", "i", "c", "e">>, <<"M", "y", "T">>, <<>>}

Hints == {NoText, <<>>, <<"M", "y", "T">>, <<"p", "r", "i", "c", "e">>, <<"D", "S">>}

\* A freshly loaded table with the given columns and no rows.
ColumnsTable(columns) ==
    [columns |-> columns,
     dtypes |-> [i \in DOMAIN columns |-> "object"],
     index |-> RangeIndex,
     rows |-> <<>>]

\* The caller holds a table with some columns.
LoadColumns ==
    /\ df = EmptyTable
    /\ \E columns \in SeqsUpTo(ColNames, MaxCols) : df' = ColumnsTable(columns)
    /\ UNCHANGED <<timezone, hostzone, now, call, time_cols>>

\* cleaner.detect_time_col(df, custom_col)
DetectTimeCol ==
    /\ \E custom_col \in Hints :
           /\ time_cols' = build_time_cols(custom_col)
           /\ call' = [op |-> "detect_time_col", input |-> df, param |-> custom_col,
                       prev |-> call.op,
                       prevParam |-> IF call.op = "detect_time_col" THEN call.param ELSE NoText,
                       clock |-> now, ret |-> detect_time_col(df, custom_col)]
    /\ UNCHANGED <<timezone, hostzone, now, df>>

InitDetect ==
    /\ timezone = None
    /\ hostzone = "UTC"
    /\ now = At(2024, 6, 12, 15)
    /\ df = EmptyTable
    /\ call = NoCall
    /\ time_cols = FixedTimeCols

NextDetect == LoadColumns \/ DetectTimeCol

SpecDetect == InitDetect /\ [][NextDetect]_vars

DetectReturned == call.op = "detect_time_col"

FixedVocabulary == {FixedTimeCols[i] : i \in DOMAIN FixedTimeCols}

\* The call returned the first column whose lowered name is in vocabulary,
\* and None when there is none.
ReturnedFirstIn(vocabulary) ==
    LET columns == call.input.columns
        hits == {i \in DOMAIN columns : lower(columns[i]) \in vocabulary}
    IN  IF hits = {}
        THEN call.ret = NoText
        ELSE call.ret = columns[CHOOSE i \in hits : \A j \in hits : i <= j]

\* C5 as stated: the result is the first column whose lowered name is in the
\* fixed vocabulary extended by the lowered hint, whatever the hint, and None
\* when no column matches.
C5_FirstMatchInVocabularyWithHint ==
    DetectReturned =>
        ReturnedFirstIn(FixedVocabulary
            \cup (IF call.param = NoText THEN {} ELSE {lower(call.param)}))

\* C5 amended: the result is the first column whose lowered name is in the
\* fixed vocabulary extended by the lowered hint when the hint is not empty
\* (an empty hint is ignored), and None when no column matches; the hints of
\* earlier calls play no part.
C5_FirstMatchInVocabularyWithNonEmptyHint ==
    DetectReturned =>
        ReturnedFirstIn(FixedVocabulary
            \cup (IF Truthy(call.param) THEN {lower(call.param)} ELSE {}))

\* C5 happens: a call without hint, right after a call whose hint matched the
\* first column, returns the second column.
C5_Witness ==
    /\ DetectReturned
    /\ call.param = NoText
    /\ Truthy(call.prevParam)
    /\ Len(call.input.columns) >= 2
    /\ lower(call.input.columns[1]) = lower(call.prevParam)
    /\ call.ret = call.input.columns[2]

\* -------------------------------------------------- the timezone policy

Configs == {None, ""} \cup Zones

\* df = cleaner.apply_timezone(df)
ApplyTimezone ==
    /\ LET ret == apply_timezone(df, timezone)
       IN  /\ call' = [op |-> "apply_timezone", input |-> df, param |-> timezone,
                       prev |-> call.op, prevParam |-> NoText, clock |-> now, ret |-> ret]
           /\ df' = ret
    /\ UNCHANGED <<timezone, hostzone, now, time_cols>>

InitTz ==
    /\ timezone \in Configs
    /\ hostzone \in Zones
    /\ now = At(2024, 6, 12, 15)
    /\ df = EmptyTable
    /\ call = NoCall
    /\ time_cols = FixedTimeCols

NextTz == LoadIndexed \/ LoadColumns \/ ApplyTimezone

SpecTz == InitTz /\ [][NextTz]_vars

TzApplied == call.op = "apply_timezone"

\* C6: on a timestamp index apply_timezone leaves a naive index when no zone
\* is configured and an index aware in the configured zone otherwise, a naive
\* input keeping its clock values and an aware input its instants; applying
\* it again changes nothing; on another index it does nothing.
C6_TimezonePolicy ==
    TzApplied =>
        IF ~is_datetime64_any_dtype(call.input.index)
        THEN call.ret = call.input
        ELSE /\ call.ret.columns = call.input.columns
             /\ Len(call.ret.rows) = Len(call.input.rows)
             /\ call.ret.index.dtype = "datetime64"
             /\ IF timezone \in Zones
                THEN /\ call.ret.index.tz = timezone
                     /\ IF call.input.index.tz = None
                        THEN ClocksOf(call.ret) = LabelsOf(call.input)
                        ELSE LabelsOf(call.ret) = LabelsOf(call.input)
                ELSE /\ call.ret.index.tz = None
                     /\ LabelsOf(call.ret) = ClocksOf(call.input)
             /\ call.prev = "apply_timezone" => call.ret = call.input

\* C6 happens: a second application in a row, on a non-empty index aware in a
\* configured zone other than UTC.
C6_Witness ==
    /\ TzApplied
    /\ call.prev = "apply_timezone"
    /\ call.input.rows # <<>>
    /\ call.ret.index.tz \in Zones \ {"UTC"}

\* C6 also happens on a first application that converts an aware index to
\* another zone.
C6_WitnessConvert ==
    /\ TzApplied
    /\ call.prev = "none"
    /\ call.input.rows # <<>>
    /\ call.input.index.tz \in Zones
    /\ call.ret.index.tz \in Zones \ {call.input.index.tz}

\* ------------------------------------------------ the numeric normalizer

TextChars == {"1", ".", "%", ",", "$", "-"}

ExampleTexts ==
    {<<"1", "2", "%">>, <<"#", "D", "I", "V", "/", "0", "!">>, <<"$", "1", ",", "2", "3", "4", ".", "5", "6">>, <<"3", ".", "1", "4">>, <<"N", "a", "N">>, <<"-", "1", ",", "0", "0", "0">>}

Texts == SeqsUpTo(TextChars, MaxLen) \cup ExampleTexts

\* The columns given to cleaning_values: a dtype and its cells.  A textual
\* column holds one text, alone or followed by a cell that is no text, or no
\* text at all.
ValueColumns ==
    {<<d, <<Text(s)>>>> : d \in {"object", "string"}, s \in Texts}
        \cup {<<"object", <<Text(s), c>>>> : s \in ExampleTexts, c \in {Number(7, 0), Missing}}
        \cup {<<"object", <<Number(7, 0)>>>>, <<"object", <<Missing>>>>,
              <<"int64", <<Number(7, 0)>>>>, <<"float64", <<Number(314, 2)>>>>}

\* A table of one column "amount" of the given dtype and cells, and one
\* integer column "n" holding the row's position.
ValuesTable(dtype, cells) ==
    [columns |-> <<<<"a", "m", "o", "u", "n", "t">>, <<"n">>>>,
     dtypes |-> <<dtype, "int64">>,
     index |-> RangeIndex,
     rows |-> [i \in DOMAIN cells |-> [label |-> i - 1, cells |-> <<cells[i], Number(i, 0)>>]]]

\* The caller holds a table of raw values.
LoadValues ==
    /\ df = EmptyTable
    /\ \E column \in ValueColumns : df' = ValuesTable(column[1], column[2])
    /\ UNCHANGED <<timezone, hostzone, now, call, time_cols>>

\* df = cleaner.cleaning_values(df)
CleaningValues ==
    /\ LET ret == cleaning_values(df)
       IN  /\ call' = [op |-> "cleaning_values", input |-> df, param |-> None,
                       prev |-> call.op, prevParam |-> NoText, clock |-> now, ret |-> ret]
           /\ df' = IF IsRaised(ret) THEN df ELSE ret
    /\ UNCHANGED <<timezone, hostzone, now, time_cols>>

InitValues ==
    /\ timezone = None
    /\ hostzone = "UTC"
    /\ now = At(2024, 6, 12, 15)
    /\ df = EmptyTable
    /\ call = NoCall
    /\ time_cols = FixedTimeCols

NextValues == LoadValues \/ CleaningValues

SpecValues == InitValues /\ [][NextValues]_vars

ValuesReturned == call.op = "cleaning_values" /\ ~IsRaised(call.ret)

\* The text without its percent signs, commas and dollar signs.
Stripped(text) == SelectSeq(text, LAMBDA c : c \notin {"%", ",", "$"})

\* The integer a text of digits with an optional leading minus denotes, and
\* Missing for any other text.
SignedInteger(text) ==
    IF text # <<>> /\ AllDigits(text) THEN Number(DigitsValue(text), 0)
    ELSE IF Len(text) > 1 /\ Head(text) = "-" /\ AllDigits(Tail(text))
         THEN Number(0 - DigitsValue(Tail(text)), 0)
         ELSE Missing

\* What the claim gives for a text cell: missing when it holds a ".", else
\* the number left once "%", "," and "$" are removed, if that is one.
ExpectedValue(text) ==
    IF \E i \in DOMAIN text : text[i] = "." THEN Missing
    ELSE SignedInteger(Stripped(text))

\* C7: every text cell becomes the number parsed after the five replacements
\* ("12%" is 12), and missing when that fails: "#DIV/0!" and every cell that
\* holds a "." ("$1,234.56", "3.14") become missing; a column already numeric
\* is left untouched.
C7_TextCellsNormalized ==
    ValuesReturned =>
        \A i \in DOMAIN call.input.rows, c \in DOMAIN call.input.columns :
            LET old == call.input.rows[i].cells[c]
                new == call.ret.rows[i].cells[c]
            IN  IF IsTextual(call.input.dtypes[c])
                THEN old.k = "str" =>
                        /\ new = ExpectedValue(old.s)
                        /\ old.s = <<"1", "2", "%">> => new = Number(12, 0)
                        /\ old.s \in {<<"#", "D", "I", "V", "/", "0", "!">>, <<"$", "1", ",", "2", "3", "4", ".", "5", "6">>, <<"3", ".", "1", "4">>} => new = Missing
                ELSE new = old /\ call.ret.dtypes[c] = call.input.dtypes[c]

\* C7 happens: the cell "12%" became the number 12.
C7_Witness ==
    /\ ValuesReturned
    /\ call.input.rows # <<>>
    /\ call.input.rows[1].cells[1] = Text(<<"1", "2", "%">>)
    /\ call.ret.rows[1].cells[1] = Number(12, 0)

\* C7 also happens with a decimal: the cell "$1,234.56" became missing.
C7_WitnessDecimal ==
    /\ ValuesReturned
    /\ call.input.rows # <<>>
    /\ call.input.rows[1].cells[1] = Text(<<"$", "1", ",", "2", "3", "4", ".", "5", "6">>)
    /\ call.ret.rows[1].cells[1] = Missing

\* ------------------------------------------------------ the pipeline

\* Runs of dates written as ISO text: the Mondays of three weeks, three
\* firsts of a month, three month ends, three quarter starts, three days in
\* a row, three dates out of order, and a run with an unreadable cell.
DateRuns ==
    {<<DateText(2024, 5, 27), DateText(2024, 6, 3), DateText(2024, 6, 10)>>,
     <<DateText(2024, 3, 1), DateText(2024, 4, 1), DateText(2024, 5, 1)>>,
     <<DateText(2024, 3, 31), DateText(2024, 4, 30), DateText(2024, 5, 31)>>,
     <<DateText(2024, 1, 1), DateText(2024, 4, 1), DateText(2024, 7, 1)>>,
     <<DateText(2024, 6, 1), DateText(2024, 6, 2), DateText(2024, 6, 3)>>,
     <<DateText(2024, 6, 10), DateText(2024, 5, 27), DateText(2024, 6, 3)>>,
     <<DateText(2024, 5, 27), Text(<<"a", "b", "c">>), DateText(2024, 6, 10)>>}
        \cup SeqsUpTo({DateText(2024, 6, 3), DateText(2024, 6, 10), Missing}, MaxRows)

\* Dates written month/day or day/month, as dayfirst decides.
SlashRuns == {<<SlashText(3, 4, 2024), SlashText(3, 5, 2024), SlashText(3, 6, 2024)>>}

\* Columns of calendar years, one of them with an unreadable cell.
YearRuns ==
    {<<Number(2022, 0), Number(2023, 0), Number(2024, 0)>>,
     <<Number(2023, 0)>>,
     <<Number(2022, 0), Text(<<"a", "b", "c">>), Number(2024, 0)>>}

\* Columns of epoch milliseconds, one of them with an unreadable cell.
MilliRuns ==
    {<<Millis(At(2024, 5, 27, 0)), Millis(At(2024, 6, 3, 0)), Millis(At(2024, 6, 10, 0))>>,
     <<Millis(At(2024, 6, 3, 0)), Text(<<"a", "b", "c">>)>>}

\* The time columns of the raw tables: a name and its cells.  "when" is a
\* name detect_time_col does not know.
TimeColumns ==
    ({<<"D", "a", "t", "e">>, <<"w", "h", "e", "n">>} \X (DateRuns \cup SlashRuns))
        \cup ({<<"y", "e", "a", "r">>, <<"Y", "e", "a", "r">>} \X YearRuns)
        \cup ({<<"T", "i", "m", "e", "s", "t", "a", "m", "p">>} \X MilliRuns)

\* The dtype pandas gives a column of these cells.
DtypeOf(cells) ==
    IF \E i \in DOMAIN cells : cells[i].k \in {"str", "date", "slash"} THEN "object"
    ELSE IF \E i \in DOMAIN cells : cells[i] = Missing THEN "float64"
    ELSE "int64"

\* A raw table as to_df returns it: a time column and a column "price" of
\* percentages written as text, under the default index.
RawTable(name, cells) ==
    [columns |-> <<name, <<"p", "r", "i", "c", "e">>>>,
     dtypes |-> <<DtypeOf(cells), "object">>,
     index |-> RangeIndex,
     rows |-> [i \in DOMAIN cells |->
                  [label |-> i - 1, cells |-> <<cells[i], Text(<<"1", "2", "%">>)>>]]]

\* The same table without a time column.
PriceTable(n) ==
    [columns |-> <<<<"p", "r", "i", "c", "e">>>>,
     dtypes |-> <<"object">>,
     index |-> RangeIndex,
     rows |-> [i \in 1..n |-> [label |-> i - 1, cells |-> <<Text(<<"1", "2", "%">>)>>]]]

\* The values a caller gives for time_col.
TimeColArgs == {NoText, <<"D", "a", "t", "e">>, <<"w", "h", "e", "n">>}

\* The caller holds a raw table.
LoadRaw ==
    /\ df = EmptyTable
    /\ \/ \E column \in TimeColumns : df' = RawTable(column[1], column[2])
       \/ df' = PriceTable(MaxRows)
    /\ call' = NoCall
    /\ UNCHANGED <<timezone, hostzone, now, time_cols>>

\* df, time_freq = cleaner.to_time(df, time_col, dayfirst), under either
\* generation of pandas' frequency aliases.
ToTime ==
    /\ \E time_col \in TimeColArgs, dayfirst \in BOOLEAN, legacy \in BOOLEAN :
           LET ret == to_time(df, time_col, dayfirst, timezone, legacy)
           IN  /\ call' = [op |-> "to_time", input |-> df, param |-> time_col,
                           prev |-> call.op, prevParam |-> NoText, clock |-> now, ret |-> ret]
               /\ df' = IF IsRaised(ret) THEN df ELSE ret.df
    /\ UNCHANGED <<timezone, hostzone, now, time_cols>>

\* df = cleaner.clean_dates(df, time_freq) with the frequency to_time has
\* just returned.
CleanDatesInferred ==
    /\ call.op = "to_time"
    /\ ~IsRaised(call.ret)
    /\ LET ret == clean_dates(df, call.ret.time_freq, now, hostzone)
       IN  /\ call' = [op |-> "clean_dates", input |-> df, param |-> call.ret.time_freq,
                       prev |-> call.op, prevParam |-> NoText, clock |-> now, ret |-> ret]
           /\ df' = IF IsRaised(ret) THEN df ELSE ret
    /\ UNCHANGED <<timezone, hostzone, now, time_cols>>

Init ==
    /\ timezone \in {None, "UTC", "Asia/Tokyo"}
    /\ hostzone = "UTC"
    /\ now = At(2024, 6, 12, 15)
    /\ df = EmptyTable
    /\ call = NoCall
    /\ time_cols = FixedTimeCols

Next == LoadRaw \/ ToTime \/ CleanDatesInferred \/ CleaningValues

Spec == Init /\ [][Next]_vars

ToTimeCalled == call.op = "to_time"

ToTimeReturned == call.op = "to_time" /\ ~IsRaised(call.ret)

\* The column a call of to_time resolved, explicitly or by detection.
ResolvedCol == IF Truthy(call.param) THEN call.param ELSE detect_time_col(call.input, NoText)

\* clean_dates was given the table and the frequency to_time returned.
HandedOff == call.op = "clean_dates" /\ call.prev = "to_time"

\* C4: no call of to_time or cleaning_values raises, whatever the table, the
\* time column (a 'year' or 'timestamp' column with unparsable cells, a
\* time_col that is no column) and the cells: the call returns a result.
C4_NoExceptionEscapes ==
    call.op \in {"to_time", "cleaning_values"} => ~IsRaised(call.ret)

\* C9: when to_time resolves a time column the table it returns has a
\* timestamp-typed index, and clean_dates on a table indexed by to_time
\* does not raise.
C9_ToTimeIndexIsTimestamp ==
    /\ (ToTimeReturned /\ Truthy(ResolvedCol)) => is_datetime64_any_dtype(call.ret.df.index)
    /\ (HandedOff /\ call.input.index.name # NoText) => ~IsRaised(call.ret)

\* The index is spaced by the given number of hours of clock time.
SpacedByHours(t, hours) == Deltas(ClocksOf(t)) = {hours}

\* The index advances by the given number of months from row to row, on the
\* same day of the month or on the last day of each month, at the same hour.
SpacedByMonths(t, months) ==
    LET w == ClocksOf(t)
        Last(c) == DaysInMonth(YearOf(c), MonthOf(c))
    IN  /\ Deltas([i \in DOMAIN w |-> YearOf(w[i]) * 12 + MonthOf(w[i])]) = {months}
        /\ \A i \in DOMAIN w : HourOf(w[i]) = HourOf(w[1])
        /\ \/ \A i \in DOMAIN w : DayOf(w[i]) = DayOf(w[1])
           \/ \A i \in DOMAIN w : DayOf(w[i]) = Last(w[i])

HasTimestamps(t, n) ==
    /\ is_datetime64_any_dtype(t.index)
    /\ Len(t.rows) >= n
    /\ \A i \in DOMAIN t.rows : t.rows[i].label # NaT

\* C10: the frequency to_time hands to clean_dates is a code clean_dates
\* distinguishes: for an index of at least 3 timestamps spaced by week, month
\* or quarter it is 'W', 'M' or 'Q', so that clean_dates cuts at the week,
\* month or quarter boundary.
C10_InferredFrequencyIsDistinguished ==
    HandedOff =>
        /\ call.param \in {"D", "W", "M", "Q"}
        /\ HasTimestamps(call.input, 3) =>
              /\ SpacedByHours(call.input, 7 * 24) =>
                    /\ call.param = "W"
                    /\ call.ret = clean_dates(call.input, "W", call.clock, hostzone)
              /\ SpacedByMonths(call.input, 1) =>
                    /\ call.param = "M"
                    /\ call.ret = clean_dates(call.input, "M", call.clock, hostzone)
              /\ SpacedByMonths(call.input, 3) =>
                    /\ call.param = "Q"
                    /\ call.ret = clean_dates(call.input, "Q", call.clock, hostzone)

====
